---- MODULE Spec2Model ----
(***************************************************************************)
(* Model of pkg/gke: RemoveCluster and RemoveNodePool (delete.go) and the  *)
(* security compliance helpers validateSecurityCompliance and              *)
(* needsSecurityCompliance (security_compliance_test.go).                  *)
(***************************************************************************)
EXTENDS Integers, Sequences, FiniteSets, TLC

(***************************************************************************)
(* Bounds of the model.                                                    *)
(***************************************************************************)
\* longest error message, in words
MaxMsgLen == 3
\* most node pools in a configuration
MaxPools == 2
\* most fields set between building a configuration and checking it
MaxEdits == 3
\* how many goroutines call RemoveCluster at once
NumInv == 2
\* how many times the compliance helpers are called on one configuration
MaxCalls == 3

(***************************************************************************)
(* Program constants.                                                      *)
(***************************************************************************)
waitSec == 30
backoffSteps == 12

(***************************************************************************)
(* Error values.  An error message is a sequence of words; err.Error() of  *)
(* an error returned by the remote client is its msg field.  The two       *)
(* marker constants are declared elsewhere in package gke; they are kept   *)
(* as word sequences so that strings.Contains is a real substring search.  *)
(***************************************************************************)
Words == {"Please", "wait", "notFound", "denied"}

errWait == <<"Please", "wait">>
errNotFound == <<"notFound">>

Msgs == UNION {[1..n -> Words] : n \in 0..MaxMsgLen}

nil == [kind |-> "nil"]
RemoteError(m) == [kind |-> "remote", msg |-> m]
RemoteErrors == {RemoteError(m) : m \in Msgs}
\* everything a remote delete call can hand back as its error result
Responses == {nil} \cup RemoteErrors

\* wait.ErrWaitTimeout, the sentinel wait.ExponentialBackoff returns
ErrWaitTimeout == [kind |-> "ErrWaitTimeout"]
\* the two values ctx.Err() takes once ctx.Done() is closed
CtxErrors == {[kind |-> "Canceled"], [kind |-> "DeadlineExceeded"]}
\* placeholder of a result that has not been returned yet
NotReturned == [kind |-> "pending"]

\* err.Error()
ErrorString(err) ==
    IF err.kind = "remote" THEN err.msg
    ELSE IF err.kind = "ErrWaitTimeout" THEN <<"timed", "out", "waiting", "for", "the", "condition">>
    ELSE IF err.kind = "Canceled" THEN <<"context", "canceled">>
    ELSE <<"context", "deadline", "exceeded">>

\* strings.Contains(s, substr)
Contains(s, substr) ==
    \E i \in 0..(Len(s) - Len(substr)) : SubSeq(s, i + 1, i + Len(substr)) = substr

\* a mutation of Classify: the not-found test comes first
ClassifyNotFoundFirst(err) ==
    IF err # nil /\ Contains(ErrorString(err), errNotFound) THEN "Absent"
    ELSE IF err # nil /\ Contains(ErrorString(err), errWait) THEN "Busy"
    ELSE IF err # nil THEN "Fatal"
    ELSE "None"

\* a mutation of Classify: the marker must be the whole message
ClassifyExact(err) ==
    IF err # nil /\ ErrorString(err) = errWait THEN "Busy"
    ELSE IF err # nil /\ ErrorString(err) = errNotFound THEN "Absent"
    ELSE IF err # nil THEN "Fatal"
    ELSE "None"

\* The if-chain both delete functions run on the error of the remote call:
\* which of its branches is taken.
Classify(err) ==
    IF err # nil /\ Contains(ErrorString(err), errWait) THEN "Busy"
    ELSE IF err # nil /\ Contains(ErrorString(err), errNotFound) THEN "Absent"
    ELSE IF err # nil THEN "Fatal"
    ELSE "None"

\* whether a response of the remote client carries the busy marker
IsBusyResp(resp) == resp # nil /\ Contains(ErrorString(resp), errWait)
\* whether a response of the remote client carries the not-found marker
IsNotFoundResp(resp) == resp # nil /\ Contains(ErrorString(resp), errNotFound)

(***************************************************************************)
(* State.                                                                  *)
(***************************************************************************)
VARIABLES
    backoff,    \* the package-level wait.Backoff
    ctxErr,     \* ctx.Err(): nil until the caller's context is done
    cancelAt,   \* where RemoveCluster stood when the context became done
    pc,         \* RemoveCluster: "idle", "loop", "call", "sleep", "done"
    b,          \* RemoveCluster: ExponentialBackoff's copy of backoff
    attempt,    \* RemoveCluster: the closure's attempt counter
    ret,        \* RemoveCluster: the error returned
    calls,      \* number of ClusterDelete calls issued
    sleeps,     \* number of time.Sleep calls made
    slept,      \* seconds slept in total
    resps,      \* number of ClusterDelete calls that have returned
    busyResps,  \* how many of them returned an error with the busy marker
    lastResp,   \* the error ClusterDelete returned last
    checks,     \* attempts at whose start ctx was already done
    npPc,       \* RemoveNodePool: "idle", "start", "call", "done"
    npCalls,    \* number of NodePoolDelete calls issued
    npResp,     \* the error NodePoolDelete returned
    npRet,      \* RemoveNodePool: the (Status, error) returned
    clsPc,      \* classification of one error: "idle", "in", "out"
    clsErr,     \* the error being classified
    clsOut,     \* the branch of the if-chain it takes
    config,     \* the GKEClusterConfig handed to the compliance helpers
    edits,      \* number of fields set since config was built
    valPc,      \* validateSecurityCompliance: "idle", "in", "out"
    valRet,     \* the error validateSecurityCompliance returned
    needsPc,    \* needsSecurityCompliance: "idle", "in", "out"
    needsRet,   \* the bool needsSecurityCompliance returned
    invs,       \* RemoveCluster called concurrently: the locals of each invocation
    callLog     \* the calls of the compliance helpers: function, *config before and after, result

nodePoolVars == <<npPc, npCalls, npResp, npRet>>
classifyVars == <<clsPc, clsErr, clsOut>>
complianceVars == <<config, edits, valPc, valRet, needsPc, needsRet>>

clusterVars == <<pc, b, attempt, ret, calls, sleeps, slept, resps, busyResps, lastResp, checks>>

\* The remote call is handed ctx: once ctx is done it may give up and return
\* ctx.Err() itself, besides every answer of its own.
ResponsesNow == Responses \cup (IF ctxErr = nil THEN {} ELSE {ctxErr})

\* the context is live
NotCancelled == [pc |-> "none", attempt |-> 0]

\* var backoff = wait.Backoff{Duration: waitSec * time.Second, Steps: backoffSteps}
BackoffValue == [Duration |-> waitSec, Factor |-> 0, Jitter |-> 0, Steps |-> backoffSteps]

ClusterIdle ==
    /\ pc = "idle"
    /\ b = BackoffValue
    /\ attempt = 0
    /\ ret = NotReturned
    /\ calls = 0
    /\ sleeps = 0
    /\ slept = 0
    /\ resps = 0
    /\ busyResps = 0
    /\ lastResp = nil
    /\ checks = 0

\* RemoveCluster has been called: ExponentialBackoff holds its own copy of
\* the policy and is about to test its loop condition.
ClusterInit ==
    /\ pc = "loop"
    /\ b = BackoffValue
    /\ attempt = 0
    /\ ret = NotReturned
    /\ calls = 0
    /\ sleeps = 0
    /\ slept = 0
    /\ resps = 0
    /\ busyResps = 0
    /\ lastResp = nil
    /\ checks = 0

(***************************************************************************)
(* RemoveCluster.                                                          *)
(***************************************************************************)
\* a mutation of ConditionResult: not found is surfaced as an error
ConditionAbsentIsError(err) ==
    IF Classify(err) = "Busy" THEN <<FALSE, nil>>
    ELSE IF Classify(err) = "Absent" THEN <<FALSE, err>>
    ELSE IF Classify(err) = "Fatal" THEN <<FALSE, err>>
    ELSE <<TRUE, nil>>

\* a mutation of ConditionResult: a permanent error is retried like a busy one
ConditionFatalRetried(err) ==
    IF Classify(err) = "Busy" THEN <<FALSE, nil>>
    ELSE IF Classify(err) = "Absent" THEN <<TRUE, nil>>
    ELSE IF Classify(err) = "Fatal" THEN <<FALSE, nil>>
    ELSE <<TRUE, nil>>

\* a mutation of ConditionResult: a busy cluster counts as deleted
ConditionBusyIsDone(err) ==
    IF Classify(err) = "Busy" THEN <<TRUE, nil>>
    ELSE IF Classify(err) = "Absent" THEN <<TRUE, nil>>
    ELSE IF Classify(err) = "Fatal" THEN <<FALSE, err>>
    ELSE <<TRUE, nil>>

\* a mutation of ConditionResult: the context is looked at again after the
\* call, and its error wins over the call's result
ConditionCtxAfterCall(err) ==
    IF ctxErr # nil THEN <<FALSE, ctxErr>>
    ELSE IF Classify(err) = "Busy" THEN <<FALSE, nil>>
    ELSE IF Classify(err) = "Absent" THEN <<TRUE, nil>>
    ELSE IF Classify(err) = "Fatal" THEN <<FALSE, err>>
    ELSE <<TRUE, nil>>

\* What the condition closure returns, (done, error), once ClusterDelete
\* has returned err.
ConditionResult(err) ==
    IF Classify(err) = "Busy" THEN <<FALSE, nil>>
    ELSE IF Classify(err) = "Absent" THEN <<TRUE, nil>>
    ELSE IF Classify(err) = "Fatal" THEN <<FALSE, err>>
    ELSE <<TRUE, nil>>

\* a mutation of StepPolicy: the step is not counted
StepPolicyKeepsSteps(p) == p

\* a mutation of StepPolicy: the delay doubles with every step
StepPolicyDoubling(p) ==
    [p EXCEPT !.Steps = p.Steps - 1, !.Duration = p.Duration * 2]

\* Backoff.Step(): the policy after the step, and the duration to sleep
StepPolicy(p) ==
    [p EXCEPT !.Steps = p.Steps - 1,
              !.Duration = IF p.Factor # 0 THEN p.Duration * p.Factor ELSE p.Duration]
StepDuration(p) == p.Duration

\* a mutation of LastStep: the budget is never seen to end
LastStepNever(p) == FALSE

\* a mutation of LastStep: the loop gives up one attempt early
LastStepEarly(p) == p.Steps <= 2

\* ExponentialBackoff's test after a condition that asked for a retry
LastStep(p) == p.Steps = 1

\* a mutation of CtxDone: the context is looked at on the first attempt only
CtxDoneFirstOnly(n) == n = 1 /\ ctxErr # nil

\* a mutation of CtxDone: the context is never looked at
CtxDoneNever(n) == FALSE

\* the select on ctx.Done() at the start of attempt n
CtxDone(n) == ctxErr # nil

\* a mutation of TimeoutError: the loop's end is reported as success
TimeoutIsNil(last) == nil

\* a mutation of TimeoutError: the loop's end hands back the last remote error
TimeoutIsLastResp(last) == last

\* what ExponentialBackoff returns when the steps are used up, the error of
\* the last remote call having been last
TimeoutError(last) == ErrWaitTimeout

\* The loop test of ExponentialBackoff and, inside the condition, attempt++
\* and the select on ctx.Done(); the remote call is issued if ctx is live.
AttemptStart ==
    /\ pc = "loop"
    /\ IF b.Steps <= 0
       THEN /\ pc' = "done"
            /\ ret' = TimeoutError(lastResp)
            /\ UNCHANGED <<attempt, calls, checks>>
       ELSE /\ attempt' = attempt + 1
            /\ IF CtxDone(attempt + 1)
               THEN /\ pc' = "done"
                    /\ ret' = ctxErr
                    /\ UNCHANGED calls
               ELSE /\ pc' = "call"
                    /\ calls' = calls + 1
                    /\ UNCHANGED ret
            /\ checks' = IF ctxErr # nil THEN checks + 1 ELSE checks
    /\ UNCHANGED <<b, sleeps, slept, resps, busyResps, lastResp>>

\* ClusterDelete returns resp; the closure classifies it and returns, and
\* ExponentialBackoff returns, or breaks out of its loop, or starts to sleep.
ClusterDeleteReturns ==
    /\ pc = "call"
    /\ \E resp \in ResponsesNow :
        LET r == ConditionResult(resp) IN
        /\ lastResp' = resp
        /\ resps' = resps + 1
        /\ busyResps' = IF IsBusyResp(resp) THEN busyResps + 1 ELSE busyResps
        /\ IF r[2] # nil \/ r[1]
           THEN /\ pc' = "done"
                /\ ret' = r[2]
                /\ UNCHANGED <<b, sleeps, slept>>
           ELSE IF LastStep(b)
           THEN /\ pc' = "done"
                /\ ret' = TimeoutError(resp)
                /\ UNCHANGED <<b, sleeps, slept>>
           ELSE /\ pc' = "sleep"
                /\ b' = StepPolicy(b)
                /\ sleeps' = sleeps + 1
                /\ slept' = slept + StepDuration(b)
                /\ UNCHANGED ret
    /\ UNCHANGED <<attempt, calls, checks>>

\* time.Sleep returns
SleepReturns ==
    /\ pc = "sleep"
    /\ pc' = "loop"
    /\ UNCHANGED <<b, attempt, ret, calls, sleeps, slept, resps, busyResps, lastResp, checks>>

\* the caller's context is cancelled or its deadline passes
CtxCancel ==
    /\ ctxErr = nil
    /\ \E e \in CtxErrors : ctxErr' = e
    /\ cancelAt' = [pc |-> pc, attempt |-> attempt]

(***************************************************************************)
(* RemoveNodePool.                                                         *)
(***************************************************************************)
NodePoolIdle ==
    /\ npPc = "idle"
    /\ npCalls = 0
    /\ npResp = nil
    /\ npRet = NotReturned

NodePoolInit ==
    /\ npPc = "start"
    /\ npCalls = 0
    /\ npResp = nil
    /\ npRet = NotReturned

\* a mutation of NodePoolResult: a busy node pool is reported as an error
NodePoolBusyIsError(err) ==
    IF Classify(err) = "Busy" THEN <<"NotChanged", err>>
    ELSE IF Classify(err) = "Absent" THEN <<"NotChanged", nil>>
    ELSE IF Classify(err) = "Fatal" THEN <<"NotChanged", err>>
    ELSE <<"Changed", nil>>

\* what RemoveNodePool returns once NodePoolDelete has returned err
NodePoolResult(err) ==
    IF Classify(err) = "Busy" THEN <<"Retry", nil>>
    ELSE IF Classify(err) = "Absent" THEN <<"NotChanged", nil>>
    ELSE IF Classify(err) = "Fatal" THEN <<"NotChanged", err>>
    ELSE <<"Changed", nil>>

\* a mutation of NodePoolDeleteCall: a done context is answered without a call
NodePoolDeleteCallChecked ==
    /\ npPc = "start"
    /\ IF ctxErr # nil
       THEN /\ npPc' = "done"
            /\ npRet' = <<"NotChanged", ctxErr>>
            /\ UNCHANGED <<npCalls, npResp>>
       ELSE /\ npPc' = "call"
            /\ npCalls' = npCalls + 1
            /\ UNCHANGED <<npResp, npRet>>

\* RemoveNodePool issues its NodePoolDelete call
NodePoolDeleteCall ==
    /\ npPc = "start"
    /\ npPc' = "call"
    /\ npCalls' = npCalls + 1
    /\ UNCHANGED <<npResp, npRet>>

\* NodePoolDelete returns resp and RemoveNodePool returns
NodePoolDeleteReturns ==
    /\ npPc = "call"
    /\ \E resp \in ResponsesNow :
        /\ npResp' = resp
        /\ npRet' = NodePoolResult(resp)
    /\ npPc' = "done"
    /\ UNCHANGED npCalls

(***************************************************************************)
(* The classification on its own.                                          *)
(***************************************************************************)
ClassifyIdle ==
    /\ clsPc = "idle"
    /\ clsErr = nil
    /\ clsOut = "None"

ClassifyInit ==
    /\ clsPc = "in"
    /\ clsErr \in Responses
    /\ clsOut = "None"

ClassifyStep ==
    /\ clsPc = "in"
    /\ clsPc' = "out"
    /\ clsOut' = Classify(clsErr)
    /\ UNCHANGED clsErr

(***************************************************************************)
(* GKEClusterConfig, as far as the compliance helpers read it.  A pointer  *)
(* is nil or the record it points to; a *bool points to [val |-> b].       *)
(***************************************************************************)
BoolPtrVals == {nil, [val |-> TRUE], [val |-> FALSE]}
PrivateClusterVals == {nil} \cup [EnablePrivateNodes : BOOLEAN]
EnabledVals == {nil} \cup [Enabled : BOOLEAN]
ClientCertificateVals == {nil} \cup [IssueClientCertificate : BOOLEAN]
MasterAuthVals ==
    {nil} \cup [Username : {"", "admin"}, Password : {"", "secret"},
                ClientCertificateConfig : ClientCertificateVals]
DatabaseEncryptionVals == {nil} \cup [State : {"ENCRYPTED", "DECRYPTED", "encrypted", ""}]
ShieldedInstanceVals ==
    {nil} \cup [EnableIntegrityMonitoring : BOOLEAN, EnableSecureBoot : BOOLEAN]
WorkloadMetadataVals == {nil} \cup [Mode : {"GKE_METADATA", "GCE_METADATA"}]
NodeConfigVals ==
    {nil} \cup [ShieldedInstanceConfig : ShieldedInstanceVals,
                WorkloadMetadataConfig : WorkloadMetadataVals]
NodePoolVals == [Config : NodeConfigVals]

\* map[string]string: the nil map, or a map m from some keys to values
NilMap == [isNil |-> TRUE, m |-> <<>>]
GoMap(f) == [isNil |-> FALSE, m |-> f]
MapsOver(keys, vals) == {NilMap} \cup {GoMap(f) : f \in UNION {[ks -> vals] : ks \in SUBSET keys}}

LabelKey == "compliance"
AnnotationKey == "gke.cattle.io/security-compliance"
MapKeys == {LabelKey, AnnotationKey}
MapValues == {"security", "Security", "true", "TRUE"}
StringMaps == MapsOver(MapKeys, MapValues)

\* &gkev1.GKEClusterConfig{}
EmptyConfig ==
    [EnableKubernetesAlpha |-> nil,
     PrivateClusterConfig |-> nil,
     BinaryAuthorization |-> nil,
     ShieldedNodes |-> nil,
     LegacyAbac |-> nil,
     MasterAuth |-> nil,
     DatabaseEncryption |-> nil,
     NodePools |-> <<>>,
     Labels |-> NilMap,
     Annotations |-> NilMap]

ShieldedPool ==
    [Config |-> [ShieldedInstanceConfig |->
                    [EnableIntegrityMonitoring |-> TRUE, EnableSecureBoot |-> TRUE],
                 WorkloadMetadataConfig |-> [Mode |-> "GKE_METADATA"]]]

\* createValidSecurityConfig()
ValidSecurityConfig ==
    [EnableKubernetesAlpha |-> [val |-> FALSE],
     PrivateClusterConfig |-> [EnablePrivateNodes |-> TRUE],
     BinaryAuthorization |-> [Enabled |-> TRUE],
     ShieldedNodes |-> [Enabled |-> TRUE],
     LegacyAbac |-> [Enabled |-> FALSE],
     MasterAuth |-> [Username |-> "", Password |-> "",
                     ClientCertificateConfig |-> [IssueClientCertificate |-> FALSE]],
     DatabaseEncryption |-> [State |-> "ENCRYPTED"],
     NodePools |-> <<ShieldedPool>>,
     Labels |-> GoMap([k \in {LabelKey} |-> "security"]),
     Annotations |-> NilMap]

\* a configuration that sets the four sections rule 2, 3, 4 and 7 ask for
FourSectionsConfig ==
    [EmptyConfig EXCEPT !.PrivateClusterConfig = [EnablePrivateNodes |-> TRUE],
                        !.BinaryAuthorization = [Enabled |-> TRUE],
                        !.ShieldedNodes = [Enabled |-> TRUE],
                        !.DatabaseEncryption = [State |-> "ENCRYPTED"]]

\* fmt.Errorf(msg) and fmt.Errorf(msg with %d, i)
Errorf(msg) == [kind |-> "error", msg |-> msg]
ErrorfPool(msg, i) == [kind |-> "error", msg |-> msg, pool |-> i]

(***************************************************************************)
(* validateSecurityCompliance.                                             *)
(***************************************************************************)
\* a mutation of CheckNodePool: one of the two shielded settings is enough
CheckNodePoolEitherShield(nodePool, i) ==
    IF nodePool.Config = nil
    THEN ErrorfPool("node pool %d config cannot be nil for security compliance", i)
    ELSE IF \/ nodePool.Config.ShieldedInstanceConfig = nil
            \/ (/\ ~nodePool.Config.ShieldedInstanceConfig.EnableIntegrityMonitoring
                /\ ~nodePool.Config.ShieldedInstanceConfig.EnableSecureBoot)
    THEN ErrorfPool("node pool %d must have shielded instance config with integrity monitoring and secure boot enabled", i)
    ELSE IF \/ nodePool.Config.WorkloadMetadataConfig = nil
            \/ nodePool.Config.WorkloadMetadataConfig.Mode # "GKE_METADATA"
    THEN ErrorfPool("node pool %d must use GKE_METADATA mode for security compliance", i)
    ELSE nil

\* the body of the loop over config.Spec.NodePools, for the pool at Go index i:
\* the error it returns, or nil when the loop goes on
CheckNodePool(nodePool, i) ==
    IF nodePool.Config = nil
    THEN ErrorfPool("node pool %d config cannot be nil for security compliance", i)
    ELSE IF \/ nodePool.Config.ShieldedInstanceConfig = nil
            \/ ~nodePool.Config.ShieldedInstanceConfig.EnableIntegrityMonitoring
            \/ ~nodePool.Config.ShieldedInstanceConfig.EnableSecureBoot
    THEN ErrorfPool("node pool %d must have shielded instance config with integrity monitoring and secure boot enabled", i)
    ELSE IF \/ nodePool.Config.WorkloadMetadataConfig = nil
            \/ nodePool.Config.WorkloadMetadataConfig.Mode # "GKE_METADATA"
    THEN ErrorfPool("node pool %d must use GKE_METADATA mode for security compliance", i)
    ELSE nil

\* a mutation of CheckNodePools: the last offending pool is reported
CheckNodePoolsLast(nodePools, k) ==
    LET bad == {j \in k..Len(nodePools) : CheckNodePool(nodePools[j], j - 1) # nil} IN
    IF bad = {} THEN nil
    ELSE LET j == CHOOSE x \in bad : \A y \in bad : y <= x IN
         CheckNodePool(nodePools[j], j - 1)

\* the loop over config.Spec.NodePools from the k-th pool on (k counts from 1,
\* the Go index is k - 1)
RECURSIVE CheckNodePools(_, _)
CheckNodePools(nodePools, k) ==
    IF k > Len(nodePools) THEN nil
    ELSE IF CheckNodePool(nodePools[k], k - 1) # nil THEN CheckNodePool(nodePools[k], k - 1)
    ELSE CheckNodePools(nodePools, k + 1)

\* a mutation of validateSecurityCompliance: legacy ABAC is looked at before
\* shielded nodes
validateAbacBeforeShielded(c) ==
    IF c.EnableKubernetesAlpha # nil /\ c.EnableKubernetesAlpha.val
    THEN Errorf("alpha features must be disabled for security compliance")
    ELSE IF c.PrivateClusterConfig = nil \/ ~c.PrivateClusterConfig.EnablePrivateNodes
    THEN Errorf("private nodes must be enabled for security compliance")
    ELSE IF c.BinaryAuthorization = nil \/ ~c.BinaryAuthorization.Enabled
    THEN Errorf("binary authorization must be enabled for security compliance")
    ELSE IF c.LegacyAbac # nil /\ c.LegacyAbac.Enabled
    THEN Errorf("legacy ABAC must be disabled for security compliance")
    ELSE IF c.ShieldedNodes = nil \/ ~c.ShieldedNodes.Enabled
    THEN Errorf("shielded nodes must be enabled for security compliance")
    ELSE IF c.MasterAuth # nil /\ (c.MasterAuth.Username # "" \/ c.MasterAuth.Password # "")
    THEN Errorf("basic authentication must be disabled for security compliance")
    ELSE IF /\ c.MasterAuth # nil
            /\ c.MasterAuth.ClientCertificateConfig # nil
            /\ c.MasterAuth.ClientCertificateConfig.IssueClientCertificate
    THEN Errorf("client certificate issuance must be disabled for security compliance")
    ELSE IF c.DatabaseEncryption = nil \/ c.DatabaseEncryption.State # "ENCRYPTED"
    THEN Errorf("database encryption must be enabled for security compliance")
    ELSE CheckNodePools(c.NodePools, 1)

\* a mutation of validateSecurityCompliance: a legacy ABAC section must be
\* there, like the sections around it
validateAbacRequired(c) ==
    IF c.EnableKubernetesAlpha # nil /\ c.EnableKubernetesAlpha.val
    THEN Errorf("alpha features must be disabled for security compliance")
    ELSE IF c.PrivateClusterConfig = nil \/ ~c.PrivateClusterConfig.EnablePrivateNodes
    THEN Errorf("private nodes must be enabled for security compliance")
    ELSE IF c.BinaryAuthorization = nil \/ ~c.BinaryAuthorization.Enabled
    THEN Errorf("binary authorization must be enabled for security compliance")
    ELSE IF c.ShieldedNodes = nil \/ ~c.ShieldedNodes.Enabled
    THEN Errorf("shielded nodes must be enabled for security compliance")
    ELSE IF c.LegacyAbac = nil \/ c.LegacyAbac.Enabled
    THEN Errorf("legacy ABAC must be disabled for security compliance")
    ELSE IF c.MasterAuth # nil /\ (c.MasterAuth.Username # "" \/ c.MasterAuth.Password # "")
    THEN Errorf("basic authentication must be disabled for security compliance")
    ELSE IF /\ c.MasterAuth # nil
            /\ c.MasterAuth.ClientCertificateConfig # nil
            /\ c.MasterAuth.ClientCertificateConfig.IssueClientCertificate
    THEN Errorf("client certificate issuance must be disabled for security compliance")
    ELSE IF c.DatabaseEncryption = nil \/ c.DatabaseEncryption.State # "ENCRYPTED"
    THEN Errorf("database encryption must be enabled for security compliance")
    ELSE CheckNodePools(c.NodePools, 1)

validateSecurityCompliance(c) ==
    IF c.EnableKubernetesAlpha # nil /\ c.EnableKubernetesAlpha.val
    THEN Errorf("alpha features must be disabled for security compliance")
    ELSE IF c.PrivateClusterConfig = nil \/ ~c.PrivateClusterConfig.EnablePrivateNodes
    THEN Errorf("private nodes must be enabled for security compliance")
    ELSE IF c.BinaryAuthorization = nil \/ ~c.BinaryAuthorization.Enabled
    THEN Errorf("binary authorization must be enabled for security compliance")
    ELSE IF c.ShieldedNodes = nil \/ ~c.ShieldedNodes.Enabled
    THEN Errorf("shielded nodes must be enabled for security compliance")
    ELSE IF c.LegacyAbac # nil /\ c.LegacyAbac.Enabled
    THEN Errorf("legacy ABAC must be disabled for security compliance")
    ELSE IF c.MasterAuth # nil /\ (c.MasterAuth.Username # "" \/ c.MasterAuth.Password # "")
    THEN Errorf("basic authentication must be disabled for security compliance")
    ELSE IF /\ c.MasterAuth # nil
            /\ c.MasterAuth.ClientCertificateConfig # nil
            /\ c.MasterAuth.ClientCertificateConfig.IssueClientCertificate
    THEN Errorf("client certificate issuance must be disabled for security compliance")
    ELSE IF c.DatabaseEncryption = nil \/ c.DatabaseEncryption.State # "ENCRYPTED"
    THEN Errorf("database encryption must be enabled for security compliance")
    ELSE CheckNodePools(c.NodePools, 1)

(***************************************************************************)
(* needsSecurityCompliance.                                                *)
(***************************************************************************)
\* v, exists := m[key]
MapLookup(map, key) ==
    IF key \in DOMAIN map.m THEN <<map.m[key], TRUE>> ELSE <<"", FALSE>>

\* a mutation of needsSecurityCompliance: the key being there is enough
needsAnyValue(c) ==
    IF ~c.Labels.isNil /\ MapLookup(c.Labels, "compliance")[2]
    THEN TRUE
    ELSE IF /\ ~c.Annotations.isNil
            /\ MapLookup(c.Annotations, "gke.cattle.io/security-compliance")[2]
    THEN TRUE
    ELSE FALSE

needsSecurityCompliance(c) ==
    IF /\ ~c.Labels.isNil
       /\ MapLookup(c.Labels, "compliance")[2]
       /\ MapLookup(c.Labels, "compliance")[1] = "security"
    THEN TRUE
    ELSE IF /\ ~c.Annotations.isNil
            /\ MapLookup(c.Annotations, "gke.cattle.io/security-compliance")[2]
            /\ MapLookup(c.Annotations, "gke.cattle.io/security-compliance")[1] = "true"
    THEN TRUE
    ELSE FALSE

(***************************************************************************)
(* Building a configuration and calling the helpers.                       *)
(***************************************************************************)
ComplianceIdle ==
    /\ config = EmptyConfig
    /\ edits = 0
    /\ valPc = "idle"
    /\ valRet = NotReturned
    /\ needsPc = "idle"
    /\ needsRet = FALSE

\* the values a test gives each field
FieldVals ==
    [EnableKubernetesAlpha |-> BoolPtrVals,
     PrivateClusterConfig |-> PrivateClusterVals,
     BinaryAuthorization |-> EnabledVals,
     ShieldedNodes |-> EnabledVals,
     LegacyAbac |-> EnabledVals,
     MasterAuth |-> MasterAuthVals,
     DatabaseEncryption |-> DatabaseEncryptionVals,
     Labels |-> {NilMap, GoMap([k \in {LabelKey} |-> "security"])},
     Annotations |-> {NilMap, GoMap([k \in {AnnotationKey} |-> "true"])}]

\* config.Spec.<field> = v, before the helper is called
SetField ==
    /\ valPc = "in"
    /\ edits < MaxEdits
    /\ \E f \in DOMAIN FieldVals : \E v \in FieldVals[f] :
        /\ v # config[f]
        /\ config' = [config EXCEPT ![f] = v]
    /\ edits' = edits + 1
    /\ UNCHANGED <<valPc, valRet, needsPc, needsRet>>

\* config.Spec.NodePools[i] = p
SetNodePool ==
    /\ valPc = "in"
    /\ edits < MaxEdits
    /\ \E i \in 1..Len(config.NodePools) : \E p \in NodePoolVals :
        /\ p # config.NodePools[i]
        /\ config' = [config EXCEPT !.NodePools[i] = p]
    /\ edits' = edits + 1
    /\ UNCHANGED <<valPc, valRet, needsPc, needsRet>>

\* config.Spec.NodePools = append(config.Spec.NodePools, p)
AppendNodePool ==
    /\ valPc = "in"
    /\ edits < MaxEdits
    /\ Len(config.NodePools) < MaxPools
    /\ \E p \in NodePoolVals :
        config' = [config EXCEPT !.NodePools = Append(@, p)]
    /\ edits' = edits + 1
    /\ UNCHANGED <<valPc, valRet, needsPc, needsRet>>

\* config.Spec.NodePools = nil
ClearNodePools ==
    /\ valPc = "in"
    /\ edits < MaxEdits
    /\ config.NodePools # <<>>
    /\ config' = [config EXCEPT !.NodePools = <<>>]
    /\ edits' = edits + 1
    /\ UNCHANGED <<valPc, valRet, needsPc, needsRet>>

\* err := validateSecurityCompliance(config)
CallValidate ==
    /\ valPc = "in"
    /\ valPc' = "out"
    /\ valRet' = validateSecurityCompliance(config)
    /\ UNCHANGED <<config, edits, needsPc, needsRet>>

\* needsSecurityCompliance(config)
CallNeeds ==
    /\ needsPc = "in"
    /\ needsPc' = "out"
    /\ needsRet' = needsSecurityCompliance(config)
    /\ UNCHANGED <<config, edits, valPc, valRet>>

(***************************************************************************)
(* The helpers called again and again on a configuration the caller keeps. *)
(***************************************************************************)
\* a configuration as a test hands it over: one the tests build, with at
\* most one field or one node pool set to another value
SnapshotConfigs ==
    LET bases == {ValidSecurityConfig, EmptyConfig, FourSectionsConfig} IN
    bases
    \cup UNION {UNION {{[c EXCEPT ![f] = v] : v \in FieldVals[f]} : f \in DOMAIN FieldVals} : c \in bases}
    \cup {[ValidSecurityConfig EXCEPT !.NodePools = <<p>>] : p \in NodePoolVals}
    \cup {[ValidSecurityConfig EXCEPT !.NodePools = <<ShieldedPool, p>>] : p \in NodePoolVals}

\* a mutation of validateConfigAfter: an absent LegacyAbac section is filled in
validateFillsAbac(c) ==
    IF c.LegacyAbac = nil THEN [c EXCEPT !.LegacyAbac = [Enabled |-> FALSE]] ELSE c

\* *config when validateSecurityCompliance returns: the function assigns to
\* nothing reached through its parameter
validateConfigAfter(c) == c

\* *config when needsSecurityCompliance returns: likewise
needsConfigAfter(c) == c

\* err := validateSecurityCompliance(config), on a configuration the caller keeps
ValidateOnSnapshot ==
    /\ Len(callLog) < MaxCalls
    /\ callLog' = Append(callLog, [fn |-> "validateSecurityCompliance", arg |-> config,
                                   after |-> validateConfigAfter(config),
                                   ret |-> validateSecurityCompliance(config)])
    /\ config' = validateConfigAfter(config)
    /\ valPc' = "out"
    /\ valRet' = validateSecurityCompliance(config)
    /\ UNCHANGED <<edits, needsPc, needsRet>>

\* needsSecurityCompliance(config), on a configuration the caller keeps
NeedsOnSnapshot ==
    /\ Len(callLog) < MaxCalls
    /\ callLog' = Append(callLog, [fn |-> "needsSecurityCompliance", arg |-> config,
                                   after |-> needsConfigAfter(config),
                                   ret |-> needsSecurityCompliance(config)])
    /\ config' = needsConfigAfter(config)
    /\ needsPc' = "out"
    /\ needsRet' = needsSecurityCompliance(config)
    /\ UNCHANGED <<edits, valPc, valRet>>

\* between two calls the caller gives the configuration other labels or
\* other annotations
SetLabels ==
    /\ Len(callLog) < MaxCalls
    /\ \E f \in {"Labels", "Annotations"} : \E v \in FieldVals[f] :
        /\ v # config[f]
        /\ config' = [config EXCEPT ![f] = v]
    /\ UNCHANGED <<callLog, edits, valPc, valRet, needsPc, needsRet>>

(***************************************************************************)
(* RemoveCluster called from several goroutines at once.                   *)
(***************************************************************************)
Invocations == 1..NumInv

\* what the remote client answers here: success, busy, not found, refused
ConcurrentResponses ==
    {nil, RemoteError(errWait), RemoteError(errNotFound), RemoteError(<<"denied">>)}

\* an invocation that has not been made yet; its ctx is the caller's
IdleInvocation ==
    [pc |-> "idle", b |-> BackoffValue, attempt |-> 0, ret |-> NotReturned,
     calls |-> 0, ctxErr |-> nil, lastResp |-> nil, busyResps |-> 0, checks |-> 0]

ConcurrentIdle == invs = [i \in Invocations |-> IdleInvocation]

\* a mutation of BackoffStep: ExponentialBackoff is handed the package
\* variable itself and steps it in place
BackoffStepShared(shared, local) == <<StepPolicy(shared), StepPolicy(shared)>>

\* Backoff.Step() inside ExponentialBackoff, which received backoff by value:
\* the package variable and the callee's copy after the step
BackoffStep(shared, local) == <<shared, StepPolicy(local)>>

\* RemoveCluster is called: attempt := 0 and wait.ExponentialBackoff(backoff, ...)
\* copies the package variable into its parameter
InvStart(i) ==
    /\ invs[i].pc = "idle"
    /\ invs' = [invs EXCEPT ![i].pc = "loop", ![i].b = backoff, ![i].attempt = 0]
    /\ UNCHANGED backoff

\* the loop test, attempt++ and the select on ctx.Done() of invocation i
InvAttemptStart(i) ==
    LET inv == invs[i] IN
    /\ inv.pc = "loop"
    /\ invs' = [invs EXCEPT ![i] =
           IF inv.b.Steps <= 0
           THEN [inv EXCEPT !.pc = "done", !.ret = TimeoutError(inv.lastResp)]
           ELSE IF inv.ctxErr # nil
           THEN [inv EXCEPT !.pc = "done", !.ret = inv.ctxErr,
                            !.attempt = @ + 1, !.checks = @ + 1]
           ELSE [inv EXCEPT !.pc = "call", !.attempt = @ + 1, !.calls = @ + 1]]
    /\ UNCHANGED backoff

\* ClusterDelete of invocation i returns
InvClusterDeleteReturns(i) ==
    LET inv == invs[i] IN
    /\ inv.pc = "call"
    /\ \E resp \in ConcurrentResponses \cup (IF inv.ctxErr = nil THEN {} ELSE {inv.ctxErr}) :
        LET r == ConditionResult(resp)
            seen == [inv EXCEPT !.lastResp = resp,
                                !.busyResps = IF IsBusyResp(resp) THEN @ + 1 ELSE @]
            stepped == BackoffStep(backoff, inv.b)
        IN  IF r[2] # nil \/ r[1]
            THEN /\ invs' = [invs EXCEPT ![i] = [seen EXCEPT !.pc = "done", !.ret = r[2]]]
                 /\ UNCHANGED backoff
            ELSE IF LastStep(inv.b)
            THEN /\ invs' = [invs EXCEPT ![i] = [seen EXCEPT !.pc = "done", !.ret = TimeoutError(resp)]]
                 /\ UNCHANGED backoff
            ELSE /\ invs' = [invs EXCEPT ![i] = [seen EXCEPT !.pc = "sleep", !.b = stepped[2]]]
                 /\ backoff' = stepped[1]

\* time.Sleep of invocation i returns
InvSleepReturns(i) ==
    /\ invs[i].pc = "sleep"
    /\ invs' = [invs EXCEPT ![i].pc = "loop"]
    /\ UNCHANGED backoff

\* the context of invocation i is cancelled or its deadline passes
InvCtxCancel(i) ==
    /\ invs[i].ctxErr = nil
    /\ invs[i].pc # "done"
    /\ \E e \in CtxErrors : invs' = [invs EXCEPT ![i].ctxErr = e]
    /\ UNCHANGED backoff

(***************************************************************************)
(* Specifications.                                                         *)
(***************************************************************************)
vars == <<backoff, ctxErr, cancelAt, clusterVars, nodePoolVars, classifyVars, complianceVars, invs, callLog>>

\* one invocation of RemoveCluster
Init ==
    /\ backoff = BackoffValue
    /\ ctxErr = nil
    /\ cancelAt = NotCancelled
    /\ ConcurrentIdle
    /\ callLog = <<>>
    /\ ClusterInit
    /\ NodePoolIdle
    /\ ClassifyIdle
    /\ ComplianceIdle

Next ==
    \/ AttemptStart /\ UNCHANGED <<callLog, invs, backoff, ctxErr, cancelAt, nodePoolVars, classifyVars, complianceVars>>
    \/ ClusterDeleteReturns /\ UNCHANGED <<callLog, invs, backoff, ctxErr, cancelAt, nodePoolVars, classifyVars, complianceVars>>
    \/ SleepReturns /\ UNCHANGED <<callLog, invs, backoff, ctxErr, cancelAt, nodePoolVars, classifyVars, complianceVars>>
    \/ CtxCancel /\ UNCHANGED <<callLog, invs, backoff, clusterVars, nodePoolVars, classifyVars, complianceVars>>

Spec == Init /\ [][Next]_vars

notClusterVars == <<backoff, ctxErr, cancelAt, nodePoolVars, classifyVars, complianceVars, invs, callLog>>
notConcurrentVars == <<ctxErr, cancelAt, clusterVars, nodePoolVars, classifyVars, complianceVars, callLog>>
notComplianceVars == <<backoff, ctxErr, cancelAt, clusterVars, nodePoolVars, classifyVars, invs>>

\* one invocation of RemoveCluster that keeps running: the loop goes on, every
\* remote call returns and every sleep ends
SpecLive ==
    /\ Init
    /\ [][Next]_vars
    /\ WF_vars(AttemptStart /\ UNCHANGED notClusterVars)
    /\ WF_vars(ClusterDeleteReturns /\ UNCHANGED notClusterVars)
    /\ WF_vars(SleepReturns /\ UNCHANGED notClusterVars)

\* one invocation of RemoveNodePool
InitNodePool ==
    /\ backoff = BackoffValue
    /\ ctxErr = nil
    /\ cancelAt = NotCancelled
    /\ ConcurrentIdle
    /\ callLog = <<>>
    /\ ClusterIdle
    /\ NodePoolInit
    /\ ClassifyIdle
    /\ ComplianceIdle

NextNodePool ==
    \/ NodePoolDeleteCall /\ UNCHANGED <<callLog, invs, backoff, ctxErr, cancelAt, clusterVars, classifyVars, complianceVars>>
    \/ NodePoolDeleteReturns /\ UNCHANGED <<callLog, invs, backoff, ctxErr, cancelAt, clusterVars, classifyVars, complianceVars>>
    \/ CtxCancel /\ UNCHANGED <<callLog, invs, backoff, clusterVars, nodePoolVars, classifyVars, complianceVars>>

SpecNodePool == InitNodePool /\ [][NextNodePool]_vars

\* the classification of every error value
InitClassify ==
    /\ backoff = BackoffValue
    /\ ctxErr = nil
    /\ cancelAt = NotCancelled
    /\ ConcurrentIdle
    /\ callLog = <<>>
    /\ ClusterIdle
    /\ NodePoolIdle
    /\ ClassifyInit
    /\ ComplianceIdle

NextClassify ==
    ClassifyStep /\ UNCHANGED <<callLog, invs, backoff, ctxErr, cancelAt, clusterVars, nodePoolVars, complianceVars>>

SpecClassify == InitClassify /\ [][NextClassify]_vars

\* a configuration is built, as the tests build it, and validated
InitValidate ==
    /\ backoff = BackoffValue
    /\ ctxErr = nil
    /\ cancelAt = NotCancelled
    /\ ConcurrentIdle
    /\ callLog = <<>>
    /\ ClusterIdle
    /\ NodePoolIdle
    /\ ClassifyIdle
    /\ config \in {ValidSecurityConfig, EmptyConfig, FourSectionsConfig}
    /\ edits = 0
    /\ valPc = "in"
    /\ valRet = NotReturned
    /\ needsPc = "idle"
    /\ needsRet = FALSE

NextValidate ==
    \/ SetField /\ UNCHANGED <<callLog, invs, backoff, ctxErr, cancelAt, clusterVars, nodePoolVars, classifyVars>>
    \/ SetNodePool /\ UNCHANGED <<callLog, invs, backoff, ctxErr, cancelAt, clusterVars, nodePoolVars, classifyVars>>
    \/ AppendNodePool /\ UNCHANGED <<callLog, invs, backoff, ctxErr, cancelAt, clusterVars, nodePoolVars, classifyVars>>
    \/ ClearNodePools /\ UNCHANGED <<callLog, invs, backoff, ctxErr, cancelAt, clusterVars, nodePoolVars, classifyVars>>
    \/ CallValidate /\ UNCHANGED <<callLog, invs, backoff, ctxErr, cancelAt, clusterVars, nodePoolVars, classifyVars>>

SpecValidate == InitValidate /\ [][NextValidate]_vars

\* needsSecurityCompliance on every pair of label and annotation maps
InitNeeds ==
    /\ backoff = BackoffValue
    /\ ctxErr = nil
    /\ cancelAt = NotCancelled
    /\ ConcurrentIdle
    /\ callLog = <<>>
    /\ ClusterIdle
    /\ NodePoolIdle
    /\ ClassifyIdle
    /\ \E l \in StringMaps : \E a \in StringMaps :
        config = [EmptyConfig EXCEPT !.Labels = l, !.Annotations = a]
    /\ edits = 0
    /\ valPc = "idle"
    /\ valRet = NotReturned
    /\ needsPc = "in"
    /\ needsRet = FALSE

NextNeeds ==
    CallNeeds /\ UNCHANGED <<callLog, invs, backoff, ctxErr, cancelAt, clusterVars, nodePoolVars, classifyVars>>

SpecNeeds == InitNeeds /\ [][NextNeeds]_vars

\* RemoveCluster called NumInv times, the invocations running interleaved
InitConcurrent ==
    /\ backoff = BackoffValue
    /\ ctxErr = nil
    /\ cancelAt = NotCancelled
    /\ ConcurrentIdle
    /\ callLog = <<>>
    /\ ClusterIdle
    /\ NodePoolIdle
    /\ ClassifyIdle
    /\ ComplianceIdle

NextConcurrent ==
    \/ \E i \in Invocations : InvStart(i) /\ UNCHANGED notConcurrentVars
    \/ \E i \in Invocations : InvAttemptStart(i) /\ UNCHANGED notConcurrentVars
    \/ \E i \in Invocations : InvClusterDeleteReturns(i) /\ UNCHANGED notConcurrentVars
    \/ \E i \in Invocations : InvSleepReturns(i) /\ UNCHANGED notConcurrentVars
    \/ \E i \in Invocations : InvCtxCancel(i) /\ UNCHANGED notConcurrentVars

SpecConcurrent == InitConcurrent /\ [][NextConcurrent]_vars

\* both helpers called up to MaxCalls times on one configuration
InitSnapshot ==
    /\ backoff = BackoffValue
    /\ ctxErr = nil
    /\ cancelAt = NotCancelled
    /\ ConcurrentIdle
    /\ callLog = <<>>
    /\ ClusterIdle
    /\ NodePoolIdle
    /\ ClassifyIdle
    /\ config \in SnapshotConfigs
    /\ edits = 0
    /\ valPc = "in"
    /\ valRet = NotReturned
    /\ needsPc = "in"
    /\ needsRet = FALSE

NextSnapshot ==
    \/ ValidateOnSnapshot /\ UNCHANGED notComplianceVars
    \/ NeedsOnSnapshot /\ UNCHANGED notComplianceVars
    \/ SetLabels /\ UNCHANGED notComplianceVars

SpecSnapshot == InitSnapshot /\ [][NextSnapshot]_vars

(***************************************************************************)
(* What the remote client returned, read off its responses alone.          *)
(***************************************************************************)
\* a not-found error: the not-found marker and no busy marker
IsAbsentResp(resp) == IsNotFoundResp(resp) /\ ~IsBusyResp(resp)
\* an error with neither marker
IsFatalResp(resp) == resp # nil /\ ~IsBusyResp(resp) /\ ~IsNotFoundResp(resp)
\* every ClusterDelete call so far returned a busy error
AllBusy == busyResps = resps
\* every ClusterDelete call before the last one returned a busy error
BusyBeforeLast == resps >= 1 /\ busyResps = (IF IsBusyResp(lastResp) THEN resps ELSE resps - 1)

(***************************************************************************)
(* RemoveCluster: properties.                                              *)
(***************************************************************************)
\* C1: with the context never cancelled, RemoveCluster does not return while
\* every call so far was answered busy and fewer than backoffSteps calls were
\* made; and when the calls 1..N are answered busy (N < backoffSteps) and
\* call N+1 is answered with no error, it returns nil having made exactly
\* N+1 calls.
BusyThenSuccess ==
    (pc = "done" /\ ctxErr = nil) =>
        /\ (resps < backoffSteps => ~AllBusy)
        /\ (resps >= 1 /\ lastResp = nil) =>
              /\ ret = nil
              /\ busyResps = resps - 1
              /\ busyResps < backoffSteps
              /\ calls = busyResps + 1
              /\ attempt = calls

BusyThenSuccessWitness ==
    /\ pc = "done"
    /\ ctxErr = nil
    /\ lastResp = nil
    /\ busyResps = backoffSteps - 1
    /\ calls = backoffSteps
    /\ ret = nil

\* C2: no more than backoffSteps ClusterDelete calls are ever made, and with
\* the context never cancelled and every call answered busy RemoveCluster
\* returns ErrWaitTimeout after exactly backoffSteps calls.
RetryBudget ==
    /\ calls <= backoffSteps
    /\ attempt <= backoffSteps
    /\ (pc = "done" /\ ctxErr = nil /\ AllBusy) =>
          /\ ret = ErrWaitTimeout
          /\ calls = backoffSteps
          /\ resps = backoffSteps

RetryBudgetWitness ==
    /\ pc = "done"
    /\ ctxErr = nil
    /\ AllBusy
    /\ calls = backoffSteps
    /\ ret = ErrWaitTimeout

\* C3: when a ClusterDelete call, the first or one after busy answers only,
\* is answered with a not-found error, RemoveCluster has returned nil, and it
\* has made no call and no sleep after that call.
IdempotentDelete ==
    (resps >= 1 /\ IsAbsentResp(lastResp)) =>
        /\ pc = "done"
        /\ ret = nil
        /\ calls = resps
        /\ attempt = resps
        /\ busyResps = resps - 1
        /\ sleeps = resps - 1

IdempotentDeleteWitness ==
    /\ pc = "done"
    /\ IsAbsentResp(lastResp)
    /\ resps = 3
    /\ sleeps = 2
    /\ ret = nil

\* C4: when a ClusterDelete call is answered with an error that carries
\* neither marker, RemoveCluster has returned that very error, and it has
\* made no call and no sleep after that call.
FatalError ==
    (resps >= 1 /\ IsFatalResp(lastResp)) =>
        /\ pc = "done"
        /\ ret = lastResp
        /\ calls = resps
        /\ attempt = resps
        /\ busyResps = resps - 1
        /\ sleeps = resps - 1

FatalErrorWitness ==
    /\ pc = "done"
    /\ lastResp = RemoteError(<<"denied">>)
    /\ ret = RemoteError(<<"denied">>)
    /\ resps = 2
    /\ sleeps = 1

\* C5: once an attempt has started with the context already done,
\* RemoveCluster has returned ctx.Err(); that attempt made no ClusterDelete
\* call (every earlier attempt made one) and no attempt followed it.  With
\* the context done before the first attempt no call is made at all.
CancellationCheck ==
    (checks >= 1) =>
        /\ pc = "done"
        /\ checks = 1
        /\ ret \in CtxErrors
        /\ ret = ctxErr
        /\ calls = attempt - 1
        /\ resps = calls
        /\ (attempt = 1 => calls = 0)

CancellationCheckWitness ==
    /\ pc = "done"
    /\ checks = 1
    /\ attempt = 1
    /\ calls = 0
    /\ ret = [kind |-> "Canceled"]

\* C8: RemoveCluster returns nil only if its last attempt made a call that
\* was answered with no error or a not-found error; and when the last call
\* of the budget is answered busy, it returns ErrWaitTimeout, which is not
\* nil and is none of the errors the remote client can return.
NeverSwallowsExhaustion ==
    /\ (pc = "done" /\ ret = nil) =>
          /\ resps >= 1
          /\ calls = attempt
          /\ resps = calls
          /\ (lastResp = nil \/ IsAbsentResp(lastResp))
    /\ (pc = "done" /\ resps = backoffSteps /\ IsBusyResp(lastResp)) =>
          /\ ret = ErrWaitTimeout
          /\ ret # nil
          /\ ret \notin Responses
          /\ ret # lastResp

NeverSwallowsExhaustionWitness ==
    /\ pc = "done"
    /\ resps = backoffSteps
    /\ IsBusyResp(lastResp)
    /\ ret = ErrWaitTimeout

(***************************************************************************)
(* RemoveNodePool: properties.                                             *)
(***************************************************************************)
\* C6: RemoveNodePool returns (Retry, nil) on a busy error, (NotChanged, nil)
\* on a not-found error, (NotChanged, E) on any other error E, and
\* (Changed, nil) on no error; an error is returned with NotChanged only.
OutcomeMapping ==
    (npPc = "done") =>
        /\ IsBusyResp(npResp) => npRet = <<"Retry", nil>>
        /\ IsAbsentResp(npResp) => npRet = <<"NotChanged", nil>>
        /\ IsFatalResp(npResp) => npRet = <<"NotChanged", npResp>>
        /\ npResp = nil => npRet = <<"Changed", nil>>
        /\ npRet[2] # nil => npRet[1] = "NotChanged"
        /\ npRet[1] \in {"Retry", "Changed"} => npRet[2] = nil

OutcomeMappingWitness ==
    /\ npPc = "done"
    /\ npResp = RemoteError(<<"denied">>)
    /\ npRet = <<"NotChanged", RemoteError(<<"denied">>)>>

(***************************************************************************)
(* The classification: properties.                                         *)
(***************************************************************************)
\* C7 as stated: every error with the busy marker is Busy, every error with
\* the not-found marker is Absent, every other non-nil error is Fatal, and
\* nil is None.
ClassificationAsStated ==
    (clsPc = "out") =>
        /\ IsBusyResp(clsErr) => clsOut = "Busy"
        /\ IsNotFoundResp(clsErr) => clsOut = "Absent"
        /\ IsFatalResp(clsErr) => clsOut = "Fatal"
        /\ clsErr = nil => clsOut = "None"

\* C7 as amended: every error with the busy marker is Busy, also when it
\* carries the not-found marker too; every error with the not-found marker
\* and without the busy marker is Absent; every other non-nil error is Fatal;
\* nil is None.
ClassificationBusyFirst ==
    (clsPc = "out") =>
        /\ IsBusyResp(clsErr) => clsOut = "Busy"
        /\ (IsNotFoundResp(clsErr) /\ ~IsBusyResp(clsErr)) => clsOut = "Absent"
        /\ IsFatalResp(clsErr) => clsOut = "Fatal"
        /\ clsErr = nil => clsOut = "None"

ClassificationBusyFirstWitness ==
    /\ clsPc = "out"
    /\ clsErr = RemoteError(<<"notFound", "Please", "wait">>)
    /\ clsOut = "Busy"

(***************************************************************************)
(* The compliance helpers: properties.                                     *)
(***************************************************************************)
\* the map holds key with exactly value
HasEntry(map, key, value) == \E k \in DOMAIN map.m : k = key /\ map.m[k] = value

\* C9: needsSecurityCompliance returns true exactly when the labels hold
\* "compliance" = "security" or the annotations hold
\* "gke.cattle.io/security-compliance" = "true"; so it returns false for nil
\* maps, for maps without these keys and for any other value of the keys.
NeedsIffLabelOrAnnotation ==
    (needsPc = "out") =>
        /\ needsRet = (\/ HasEntry(config.Labels, "compliance", "security")
                       \/ HasEntry(config.Annotations, "gke.cattle.io/security-compliance", "true"))
        /\ (config.Labels.isNil /\ config.Annotations.isNil) => ~needsRet

NeedsIffLabelOrAnnotationWitness ==
    /\ needsPc = "out"
    /\ needsRet
    /\ config.Labels = GoMap([k \in {"compliance"} |-> "Security"])
    /\ config.Annotations = GoMap([k \in {"gke.cattle.io/security-compliance"} |-> "true"])

\* the eight rules of the checklist, each as what it asks of a configuration
AlphaOff(c) == c.EnableKubernetesAlpha \in {nil, [val |-> FALSE]}
PrivateNodesOn(c) == c.PrivateClusterConfig = [EnablePrivateNodes |-> TRUE]
BinaryAuthorizationOn(c) == c.BinaryAuthorization = [Enabled |-> TRUE]
ShieldedNodesOn(c) == c.ShieldedNodes = [Enabled |-> TRUE]
LegacyAbacOff(c) == c.LegacyAbac \in {nil, [Enabled |-> FALSE]}
MasterAuthClean(c) ==
    \/ c.MasterAuth = nil
    \/ /\ c.MasterAuth.Username = ""
       /\ c.MasterAuth.Password = ""
       /\ c.MasterAuth.ClientCertificateConfig \in {nil, [IssueClientCertificate |-> FALSE]}
DatabaseEncrypted(c) == c.DatabaseEncryption = [State |-> "ENCRYPTED"]
NodePoolsShielded(c) == \A i \in 1..Len(c.NodePools) : c.NodePools[i] = ShieldedPool
AllRulesHold(c) ==
    /\ AlphaOff(c)
    /\ PrivateNodesOn(c)
    /\ BinaryAuthorizationOn(c)
    /\ ShieldedNodesOn(c)
    /\ LegacyAbacOff(c)
    /\ MasterAuthClean(c)
    /\ DatabaseEncrypted(c)
    /\ NodePoolsShielded(c)

\* config is createValidSecurityConfig() with one rule broken
OneRuleBroken ==
    /\ edits = 1
    /\ ~AllRulesHold(config)
    /\ \/ \E f \in DOMAIN FieldVals : \E v \in FieldVals[f] :
            config = [ValidSecurityConfig EXCEPT ![f] = v]
       \/ \E p \in NodePoolVals : config = [ValidSecurityConfig EXCEPT !.NodePools[1] = p]
       \/ \E p \in NodePoolVals :
            config = [ValidSecurityConfig EXCEPT !.NodePools = Append(@, p)]

\* C10: validateSecurityCompliance returns nil exactly when all eight rules
\* hold: nil on createValidSecurityConfig(), and an error on that
\* configuration with any one rule broken.
ValidateIffAllRules ==
    (valPc = "out") =>
        /\ (valRet = nil) = AllRulesHold(config)
        /\ valRet # nil => valRet.kind = "error"
        /\ config = ValidSecurityConfig => valRet = nil
        /\ OneRuleBroken => valRet # nil

ValidateIffAllRulesWitness ==
    /\ valPc = "out"
    /\ OneRuleBroken
    /\ config = [ValidSecurityConfig EXCEPT
                    !.NodePools[1].Config.ShieldedInstanceConfig.EnableSecureBoot = FALSE]
    /\ valRet # nil

\* the place in the checklist of the rule an error message reports: 1 alpha,
\* 2 private cluster, 3 binary authorization, 4 shielded nodes, 5 legacy
\* ABAC, 6 basic authentication, 7 client certificate (6 and 7 are the two
\* halves of the master authentication rule), 8 database encryption, 9 node
\* pools
PlaceOfMessage(msg) ==
    CASE msg = "alpha features must be disabled for security compliance" -> 1
      [] msg = "private nodes must be enabled for security compliance" -> 2
      [] msg = "binary authorization must be enabled for security compliance" -> 3
      [] msg = "shielded nodes must be enabled for security compliance" -> 4
      [] msg = "legacy ABAC must be disabled for security compliance" -> 5
      [] msg = "basic authentication must be disabled for security compliance" -> 6
      [] msg = "client certificate issuance must be disabled for security compliance" -> 7
      [] msg = "database encryption must be enabled for security compliance" -> 8
      [] OTHER -> 9

BasicAuthOff(c) ==
    c.MasterAuth = nil \/ (c.MasterAuth.Username = "" /\ c.MasterAuth.Password = "")
ClientCertificateOff(c) ==
    \/ c.MasterAuth = nil
    \/ c.MasterAuth.ClientCertificateConfig \in {nil, [IssueClientCertificate |-> FALSE]}

\* the places of the rules a configuration breaks
BrokenPlaces(c) ==
    {n \in 1..9 :
        \/ n = 1 /\ ~AlphaOff(c)
        \/ n = 2 /\ ~PrivateNodesOn(c)
        \/ n = 3 /\ ~BinaryAuthorizationOn(c)
        \/ n = 4 /\ ~ShieldedNodesOn(c)
        \/ n = 5 /\ ~LegacyAbacOff(c)
        \/ n = 6 /\ ~BasicAuthOff(c)
        \/ n = 7 /\ ~ClientCertificateOff(c)
        \/ n = 8 /\ ~DatabaseEncrypted(c)
        \/ n = 9 /\ ~NodePoolsShielded(c)}

\* C11: the error validateSecurityCompliance returns is that of the first
\* broken rule in checklist order (basic authentication before client
\* certificate inside rule 6): no rule before it is broken.
FixedChecklistOrder ==
    (valPc = "out" /\ valRet # nil) =>
        /\ PlaceOfMessage(valRet.msg) \in BrokenPlaces(config)
        /\ \A n \in BrokenPlaces(config) : PlaceOfMessage(valRet.msg) <= n

FixedChecklistOrderWitness ==
    /\ valPc = "out"
    /\ BrokenPlaces(config) = {4, 5, 8}
    /\ valRet = Errorf("shielded nodes must be enabled for security compliance")

\* the pools of a configuration that break rule 8, by Go index
OffendingPools(c) == {i \in 0..(Len(c.NodePools) - 1) : c.NodePools[i + 1] # ShieldedPool}

\* the first sub-check a pool fails
FirstFailingCheck(nodePool) ==
    IF nodePool.Config = nil
    THEN "node pool %d config cannot be nil for security compliance"
    ELSE IF nodePool.Config.ShieldedInstanceConfig #
                [EnableIntegrityMonitoring |-> TRUE, EnableSecureBoot |-> TRUE]
    THEN "node pool %d must have shielded instance config with integrity monitoring and secure boot enabled"
    ELSE "node pool %d must use GKE_METADATA mode for security compliance"

\* C19: a node pool error names the offending pool of lowest index and the
\* first sub-check that pool fails, in the order nil config, shielded
\* instance settings, workload metadata mode.
NodePoolOrder ==
    (valPc = "out" /\ valRet # nil /\ PlaceOfMessage(valRet.msg) = 9) =>
        /\ valRet.pool \in OffendingPools(config)
        /\ \A i \in OffendingPools(config) : valRet.pool <= i
        /\ valRet.msg = FirstFailingCheck(config.NodePools[valRet.pool + 1])

NodePoolOrderWitness ==
    /\ valPc = "out"
    /\ Len(config.NodePools) = 2
    /\ config.NodePools[1].Config # nil
    /\ config.NodePools[1].Config.WorkloadMetadataConfig = [Mode |-> "GCE_METADATA"]
    /\ config.NodePools[2].Config = nil
    /\ valRet = ErrorfPool("node pool %d must use GKE_METADATA mode for security compliance", 0)

\* C20: a configuration without its private cluster, binary authorization,
\* shielded nodes or database encryption section is rejected; no error is
\* about a section that is not there among the alpha flag, legacy ABAC,
\* master authentication and the node pools; and the configuration with the
\* four required sections compliant and nothing else passes.
AbsentSections ==
    (valPc = "out") =>
        /\ (\/ config.PrivateClusterConfig = nil
            \/ config.BinaryAuthorization = nil
            \/ config.ShieldedNodes = nil
            \/ config.DatabaseEncryption = nil) => valRet # nil
        /\ valRet # nil =>
              /\ PlaceOfMessage(valRet.msg) = 1 => config.EnableKubernetesAlpha # nil
              /\ PlaceOfMessage(valRet.msg) = 5 => config.LegacyAbac # nil
              /\ PlaceOfMessage(valRet.msg) \in {6, 7} => config.MasterAuth # nil
              /\ PlaceOfMessage(valRet.msg) = 9 => config.NodePools # <<>>
        /\ (/\ config.EnableKubernetesAlpha = nil
            /\ config.LegacyAbac = nil
            /\ config.MasterAuth = nil
            /\ config.NodePools = <<>>
            /\ PrivateNodesOn(config)
            /\ BinaryAuthorizationOn(config)
            /\ ShieldedNodesOn(config)
            /\ DatabaseEncrypted(config)) => valRet = nil

AbsentSectionsWitness ==
    /\ valPc = "out"
    /\ config = FourSectionsConfig
    /\ valRet = nil

(***************************************************************************)
(* RemoveCluster: cancellation, termination, order and sleeps.             *)
(***************************************************************************)
\* what RemoveCluster returns when its last call was answered resp and no
\* attempt saw the context done
OutcomeOfLastCall(resp) ==
    IF resp = nil \/ IsAbsentResp(resp) THEN nil
    ELSE IF IsBusyResp(resp) THEN ErrWaitTimeout
    ELSE resp

\* the part of C12 that holds as stated: the context becoming done changes
\* nothing in RemoveCluster, a sleep ends only by itself, the result of a call
\* that was in flight when the context became done is classified as ever, and
\* the pre-call check that sees the context done is that of the next attempt
CooperativeSteps ==
    /\ [][ctxErr' # ctxErr => UNCHANGED clusterVars]_vars
    /\ [][pc = "sleep" /\ pc' # "sleep" => pc' = "loop" /\ sleeps' = sleeps]_vars
    /\ [](pc = "done" /\ checks = 0 /\ resps >= 1 =>
            /\ ret = OutcomeOfLastCall(lastResp)
            /\ resps = attempt
            /\ IsBusyResp(lastResp) => resps = backoffSteps)
    /\ [](checks = 1 /\ cancelAt.pc \in {"call", "sleep"} =>
            /\ attempt = cancelAt.attempt + 1
            /\ pc = "done"
            /\ ret = ctxErr)

\* C12 as stated: with all of the above, RemoveCluster returns a cancellation
\* error only from the pre-call check of an attempt.
CooperativeAsStated ==
    /\ CooperativeSteps
    /\ [](pc = "done" /\ ret \in CtxErrors => checks = 1)

\* C12 as amended: with all of the above, RemoveCluster returns a
\* cancellation error only from the pre-call check of an attempt or as the
\* very error its last ClusterDelete call returned.
CooperativeCancellation ==
    /\ CooperativeSteps
    /\ [](pc = "done" /\ ret \in CtxErrors =>
            \/ checks = 1
            \/ checks = 0 /\ resps = attempt /\ lastResp = ret /\ ret = ctxErr)

CooperativeCancellationWitness ==
    /\ pc = "done"
    /\ cancelAt = [pc |-> "call", attempt |-> backoffSteps]
    /\ checks = 0
    /\ IsBusyResp(lastResp)
    /\ ret = ErrWaitTimeout

\* the four ways RemoveCluster ends
TerminalOutcomes == {nil, ErrWaitTimeout} \cup CtxErrors \cup RemoteErrors

\* C13: every invocation of RemoveCluster whose remote calls return ends,
\* with one outcome that stays: nil, the context's error, the remote error or
\* ErrWaitTimeout; and it sleeps fewer than backoffSteps times on the way.
Terminates ==
    /\ <>(pc = "done")
    /\ [](pc = "done" => ret \in TerminalOutcomes)
    /\ [](pc # "done" => ret = NotReturned)
    /\ [][pc = "done" => UNCHANGED clusterVars]_vars
    /\ [](sleeps < backoffSteps /\ attempt <= backoffSteps)

TerminatesWitness ==
    /\ pc = "done"
    /\ sleeps = backoffSteps - 1
    /\ ret = ErrWaitTimeout

\* C16: at most one ClusterDelete call is in flight; an attempt starts only
\* from the top of the loop, with ordinal one more than the last, and when it
\* is not the first only after the last attempt's call returned busy and the
\* sleep that followed has ended.
StrictlySequential ==
    /\ [](calls - resps \in {0, 1})
    /\ []((pc = "call") = (calls = resps + 1))
    /\ [][attempt' # attempt =>
            /\ attempt' = attempt + 1
            /\ pc = "loop"
            /\ attempt >= 1 =>
                  /\ resps = attempt
                  /\ calls = attempt
                  /\ busyResps = attempt
                  /\ IsBusyResp(lastResp)
                  /\ sleeps = attempt]_vars
    /\ [][calls' # calls => calls' = calls + 1 /\ attempt' = calls']_vars

StrictlySequentialWitness ==
    /\ pc = "call"
    /\ attempt = 3
    /\ calls = 3
    /\ resps = 2
    /\ sleeps = 2

\* C17: no sleep comes before the first attempt; a sleep starts only when a
\* call has returned busy and the budget is not used up, and the next attempt
\* follows it; an invocation that has returned after k attempts slept k - 1
\* times, each after a busy answer.
SleepsOnlyOnBusyRetry ==
    /\ attempt = 0 => sleeps = 0
    /\ attempt = 1 /\ pc = "call" => sleeps = 0
    /\ pc \in {"call", "done"} => sleeps = attempt - 1
    /\ pc \in {"sleep", "loop"} /\ attempt >= 1 => sleeps = attempt /\ IsBusyResp(lastResp)
    /\ pc = "sleep" => attempt < backoffSteps
    /\ sleeps <= busyResps
    /\ pc = "done" /\ checks = 0 /\ ~IsBusyResp(lastResp) => sleeps = busyResps

SleepsOnlyOnBusyRetryWitness ==
    /\ pc = "done"
    /\ attempt = backoffSteps
    /\ IsBusyResp(lastResp)
    /\ sleeps = backoffSteps - 1
    /\ busyResps = backoffSteps

\* C18: every sleep lasts waitSec seconds, and an invocation sleeps no more
\* than waitSec * backoffSteps seconds in total.
BackoffBound ==
    /\ b.Duration = waitSec
    /\ slept = sleeps * waitSec
    /\ slept <= waitSec * backoffSteps

BackoffBoundWitness ==
    /\ pc = "done"
    /\ sleeps = backoffSteps - 1
    /\ slept = waitSec * (backoffSteps - 1)

(***************************************************************************)
(* RemoveNodePool: a single attempt.                                       *)
(***************************************************************************)
\* C14: RemoveNodePool makes one NodePoolDelete call, whether the context is
\* done or not, and returns when that call returns, whatever it returns; it
\* makes no second call and does not sleep.
SingleAttempt ==
    /\ npCalls <= 1
    /\ npPc \in {"call", "done"} => npCalls = 1
    /\ npPc = "done" => npRet = NodePoolResult(npResp)
    /\ sleeps = 0 /\ slept = 0

SingleAttemptWitness ==
    /\ npPc = "done"
    /\ cancelAt.pc = "idle"
    /\ npResp \in RemoteErrors
    /\ IsBusyResp(npResp)
    /\ npRet = <<"Retry", nil>>
    /\ npCalls = 1

(***************************************************************************)
(* Concurrent invocations of RemoveCluster.                                *)
(***************************************************************************)
\* the error an invocation returns, read off its own context and the
\* answers of its own remote calls
OwnOutcome(inv) ==
    IF inv.checks = 1 THEN inv.ctxErr
    ELSE IF IsBusyResp(inv.lastResp) THEN ErrWaitTimeout
    ELSE IF inv.lastResp = nil \/ IsNotFoundResp(inv.lastResp) THEN nil
    ELSE inv.lastResp

\* the number of remote calls an invocation has issued, read off the answers
\* of its own remote calls
OwnCalls(inv) ==
    IF inv.pc = "call" THEN inv.busyResps + 1
    ELSE IF inv.pc = "done" /\ inv.checks = 0 /\ ~IsBusyResp(inv.lastResp) THEN inv.busyResps + 1
    ELSE inv.busyResps

\* C15: concurrent invocations of RemoveCluster do not interfere.  The
\* package-level backoff is never modified; every invocation, whatever the
\* others are doing, holds the budget of backoffSteps attempts less one per
\* busy answer of its own, gives up with the timeout error only after
\* backoffSteps calls of its own, and its attempt count and its outcome are
\* functions of its own remote answers and its own cancellation signal; a
\* step of one invocation changes nothing of another.
NoInterference ==
    /\ [](backoff = BackoffValue)
    /\ [](\A i \in Invocations :
            LET inv == invs[i] IN
            /\ inv.pc # "idle" => inv.b = [BackoffValue EXCEPT !.Steps = backoffSteps - (IF inv.pc = "done" /\ inv.checks = 0 /\ IsBusyResp(inv.lastResp) THEN inv.busyResps - 1 ELSE inv.busyResps)]
            /\ inv.calls = OwnCalls(inv)
            /\ inv.calls <= backoffSteps
            /\ inv.attempt = inv.calls + inv.checks
            /\ inv.pc = "done" => inv.ret = OwnOutcome(inv)
            /\ inv.pc = "done" /\ inv.ret = ErrWaitTimeout => inv.calls = backoffSteps /\ inv.busyResps = backoffSteps
            /\ inv.pc = "done" /\ inv.busyResps = inv.calls /\ inv.checks = 0 => inv.calls = backoffSteps /\ inv.ret = ErrWaitTimeout)
    /\ [][\A i \in Invocations : \A j \in Invocations :
            i # j /\ invs'[i] # invs[i] => invs'[j] = invs[j]]_vars

\* two invocations are in flight together, each on the last attempt of its
\* own budget, and one of them has seen its context cancelled on the way
NoInterferenceWitness ==
    /\ invs[1].pc = "call" /\ invs[1].attempt = backoffSteps
    /\ invs[2].pc = "call" /\ invs[2].attempt = backoffSteps
    /\ invs[2].ctxErr # nil
    /\ backoff = BackoffValue

(***************************************************************************)
(* The compliance helpers: frame and determinism.                          *)
(***************************************************************************)
\* a configuration without what needsSecurityCompliance reads
WithoutLabels(c) == [c EXCEPT !.Labels = NilMap, !.Annotations = NilMap]

============================================================================
